---- MODULE Spec2Model ----
(***************************************************************************)
(* A model of conda_forge_tick/utils.py: the LazyJson store and the JSON   *)
(* codec hooks, pluck, get_requirements and the executor context manager.  *)
(* Each part has its own specification; the variables of the other parts   *)
(* stay at their idle values.                                              *)
(***************************************************************************)
EXTENDS Integers, Sequences, FiniteSets, TLC

VARIABLES
    files,      \* path -> [exists, content]: the file system, content a chunk sequence
    stores,     \* store object -> [file_name, data_loaded, data, via]; data_loaded = FALSE is data None
    hist,       \* store object -> [reads, accessed, gone]: history of the object since it was made
    last,       \* the call that returned last: [op, s, key, val, exc]
    pc,         \* store object -> position of its thread inside __setitem__ (concurrent runs)
    arg,        \* store object -> [key, val] of the __setitem__ in progress
    done,       \* store object -> number of __setitem__ calls that returned normally
    G,          \* the graph pluck works on, in place: [nodes, edges]
    G0,         \* the graph as it was handed to pluck
    node_id,    \* the node handed to pluck
    plucked,    \* pluck has returned
    meta_yaml,  \* the recipe document handed to get_requirements
    flags,      \* [outputs, build, host, run]
    reqs,       \* the set get_requirements returned
    computed,   \* get_requirements has returned
    kind,       \* the kind handed to executor
    max_workers,\* the worker count handed to executor
    epc,        \* where the executor scope stands
    held,       \* the resources that are acquired and not released
    error,      \* the exception on its way to the caller of the scope, or "none"
    body_ran,   \* the body of the present scope has run
    scopes,     \* the number of scopes entered so far
    elog        \* the acquisitions and releases so far: [n, e, r], n the scope

storeVars == <<files, stores, hist, last, pc, arg, done>>
graphVars == <<G, G0, node_id, plucked>>
reqVars == <<meta_yaml, flags, reqs, computed>>
execVars == <<kind, max_workers, epc, held, error, body_ran, scopes, elog>>

vars == <<files, stores, hist, last, pc, arg, done, G, G0, node_id, plucked,
          meta_yaml, flags, reqs, computed,
          kind, max_workers, epc, held, error, body_ran, scopes, elog>>

-----------------------------------------------------------------------------
(* Bounds *)

MaxReads == 2       \* a store object reads its file at most this often
MaxCalls == 1       \* __setitem__ calls that return normally, per thread, in the concurrent runs
MaxNode == 3        \* graph nodes 1..MaxNode
MaxOutputs == 1     \* entries of a recipe's outputs list
MaxWorkers == 1     \* max_workers 0..MaxWorkers
MaxScopes == 2      \* executor scopes entered one after the other

Paths == {1, 2}     \* file paths
Ints == {1, 2}      \* plain JSON numbers
StoreIds == {1, 2}  \* store objects
Keys == {"a", "b"}

-----------------------------------------------------------------------------
(* Python values a store can hold under a key.                             *)
(*   int  : a plain JSON number                                            *)
(*   dict : the plain mapping {"__lazy_json__": <path x>}                  *)
(*   lazy : a live LazyJson object bound to path x                         *)

IntVal(n) == [t |-> "int", x |-> n]
DictVal(p) == [t |-> "dict", x |-> p]
LazyVal(p) == [t |-> "lazy", x |-> p]

PlainValues == {IntVal(n) : n \in Ints} \cup {DictVal(p) : p \in Paths}
Values == PlainValues \cup {LazyVal(p) : p \in Paths}

(* A Python dict: a sequence of [k, v] entries in insertion order, keys unique. *)
DictKeys(d) == {d[i].k : i \in 1..Len(d)}
DictGet(d, key) == d[CHOOSE i \in 1..Len(d) : d[i].k = key].v
DictSet(d, key, v) ==
    IF key \in DictKeys(d)
    THEN [i \in 1..Len(d) |-> IF d[i].k = key THEN [k |-> key, v |-> v] ELSE d[i]]
    ELSE Append(d, [k |-> key, v |-> v])
DictDel(d, key) == SelectSeq(d, LAMBDA e : e.k # key)
(* dict equality ignores the insertion order *)
DictItems(d) == {<<d[i].k, d[i].v>> : i \in 1..Len(d)}
DictEq(d, e) == DictItems(d) = DictItems(e)

-----------------------------------------------------------------------------
(* The text of a JSON document as the chunks the encoder writes.           *)

LBrace == [t |-> "{", k |-> "", x |-> 0]
RBrace == [t |-> "}", k |-> "", x |-> 0]
KeyChunk(key) == [t |-> "key", k |-> key, x |-> 0]           \* "key": with no value yet
IntChunk(key, n) == [t |-> "int", k |-> key, x |-> n]         \* "key": n
ObjChunk(key, p) == [t |-> "obj", k |-> key, x |-> p]         \* "key": {"__lazy_json__": p}

(* default: the encode hook of the codec. *)
default(obj) ==
    IF obj.t = "lazy"
    THEN [value |-> DictVal(obj.x), exc |-> "ok"]
    ELSE [value |-> obj, exc |-> "TypeError"]

(* object_hook: the decode hook of the codec, applied to a decoded mapping. *)
object_hook(dct) ==
    IF dct.t = "dict" THEN LazyVal(dct.x) ELSE dct

(* json.dump(obj, fp, default = hook): the chunks written to fp before the  *)
(* encoder returns or raises. use_default = FALSE is a call without the    *)
(* default argument: a value that is no JSON type raises TypeError after   *)
(* the chunks before it, its key included, have been written.              *)
RECURSIVE iterencode(_, _)
iterencode(d, use_default) ==
    IF d = <<>> THEN [chunks |-> <<>>, exc |-> "ok"]
    ELSE LET e == Head(d)
             o == IF e.v.t \in {"int", "dict"} THEN [value |-> e.v, exc |-> "ok"]
                  ELSE IF use_default THEN default(e.v)
                  ELSE [value |-> e.v, exc |-> "TypeError"]
         IN  IF o.exc # "ok" THEN [chunks |-> <<KeyChunk(e.k)>>, exc |-> o.exc]
             ELSE LET rest == iterencode(Tail(d), use_default)
                      chunk == IF o.value.t = "int" THEN IntChunk(e.k, o.value.x)
                               ELSE ObjChunk(e.k, o.value.x)
                  IN  [chunks |-> <<chunk>> \o rest.chunks, exc |-> rest.exc]

json_dump(d, use_default) ==
    LET body == iterencode(d, use_default)
    IN  [chunks |-> <<LBrace>> \o body.chunks \o
                    (IF body.exc = "ok" THEN <<RBrace>> ELSE <<>>),
         exc |-> body.exc]

(* json.load(fp, object_hook = hook): the decoded mapping, or JSONDecodeError *)
(* when the text is not one complete JSON object.                          *)
RECURSIVE decode_items(_, _)
decode_items(chunks, use_hook) ==
    IF chunks = <<>> THEN <<>>
    ELSE LET c == chunks[Len(chunks)]
             v == IF c.t = "int" THEN IntVal(c.x)
                  ELSE IF use_hook THEN object_hook(DictVal(c.x)) ELSE DictVal(c.x)
         IN  DictSet(decode_items(SubSeq(chunks, 1, Len(chunks) - 1), use_hook), c.k, v)

WellFormed(content) ==
    /\ Len(content) >= 2
    /\ content[1] = LBrace
    /\ content[Len(content)] = RBrace
    /\ \A i \in 2..(Len(content) - 1) : content[i].t \in {"int", "obj"}

json_load(content, use_hook) ==
    IF WellFormed(content)
    THEN [data |-> decode_items(SubSeq(content, 2, Len(content) - 1), use_hook), exc |-> "ok"]
    ELSE [data |-> <<>>, exc |-> "JSONDecodeError"]

-----------------------------------------------------------------------------
(* The parts a specification does not use. *)

NoGraph ==
    /\ G = [nodes |-> {}, edges |-> {}]
    /\ G0 = [nodes |-> {}, edges |-> {}]
    /\ node_id = 1
    /\ plucked = FALSE

AbsentSub == [t |-> "absent", items |-> <<>>]
AbsentSection == [t |-> "absent", items |-> <<>>, build |-> AbsentSub, host |-> AbsentSub, run |-> AbsentSub]

NoRecipe ==
    /\ meta_yaml = [requirements |-> AbsentSection, outputs |-> [t |-> "absent", items |-> <<>>]]
    /\ flags = [outputs |-> TRUE, build |-> TRUE, host |-> TRUE, run |-> TRUE]
    /\ reqs = {}
    /\ computed = FALSE

NoExecutor ==
    /\ kind = "thread"
    /\ max_workers = 1
    /\ epc = "idle"
    /\ held = {}
    /\ error = "none"
    /\ body_ran = FALSE
    /\ scopes = 0
    /\ elog = <<>>

-----------------------------------------------------------------------------
(* The file system.                                                        *)

NoFile == [exists |-> FALSE, content |-> <<>>]
FileOf(content) == [exists |-> TRUE, content |-> content]

(* open(name, "w"): creates or truncates. *)
open_w(fs, p) == [fs EXCEPT ![p] = FileOf(<<>>)]

(* write at offset 0 and close: bytes of an older, longer text written by   *)
(* another handle after the truncation stay behind the new text.           *)
write_close(fs, p, chunks) ==
    [fs EXCEPT ![p] = FileOf(chunks \o SubSeq(fs[p].content, Len(chunks) + 1, Len(fs[p].content)))]

-----------------------------------------------------------------------------
(* LazyJson                                                                *)

NewStore(p, how) == [file_name |-> p, data_loaded |-> FALSE, data |-> <<>>, via |-> how]
NewHist == [reads |-> 0, accessed |-> FALSE, gone |-> FALSE]

(* LazyJson.__init__: the file system after construction over path p. *)
__init__(fs, p) ==
    IF ~fs[p].exists THEN write_close(open_w(fs, p), p, json_dump(<<>>, FALSE).chunks) ELSE fs

(* LazyJson._load on store record st with the file system fs:              *)
(* the store afterwards, the exception raised, and whether the file was read. *)
_load(st, fs) ==
    IF st.data_loaded THEN [st |-> st, exc |-> "ok", read |-> 0]
    ELSE IF ~fs[st.file_name].exists THEN [st |-> st, exc |-> "FileNotFoundError", read |-> 0]
    ELSE LET r == json_load(fs[st.file_name].content, FALSE)
         IN  IF r.exc = "ok"
             THEN [st |-> [st EXCEPT !.data_loaded = TRUE, !.data = r.data], exc |-> "ok", read |-> 1]
             ELSE [st |-> st, exc |-> r.exc, read |-> 1]

(* A dump that writes the changed entry alone instead of the whole cache. *)
DumpTextLastEntry(d) == json_dump(IF d = <<>> THEN d ELSE <<d[Len(d)]>>, FALSE)

(* What LazyJson._dump hands to the file: json.dump(self.data, f, indent=4). *)
DumpText(d) == json_dump(d, FALSE)

(* A _dump that forgets the write-through. *)
_dump_skipped(st, fs) == [fs |-> fs, exc |-> "ok"]

(* LazyJson._dump on a loaded store: the file system afterwards and the exception. *)
_dump(st, fs) ==
    LET w == DumpText(st.data)
    IN  [fs |-> write_close(open_w(fs, st.file_name), st.file_name, w.chunks), exc |-> w.exc]

(* A reduced state that still carries the cache. *)
__getstate__with_data(st) == [st EXCEPT !.via = "state"]

(* LazyJson.__getstate__: the reduced state of store record st. *)
__getstate__(st) == [file_name |-> st.file_name, data_loaded |-> FALSE, data |-> <<>>, via |-> "state"]

Touch(h, ld) == [h EXCEPT !.reads = @ + ld.read, !.accessed = TRUE]
CanRead(s) == hist[s].reads < MaxReads
Idle == \A s \in StoreIds : pc[s] = "idle"
Returned(name, s, key, val, exc) == [op |-> name, s |-> s, key |-> key, val |-> val, exc |-> exc]
NoVal == IntVal(0)

(* LazyJson(file_name): a new object takes the place of store s. *)
Construct(s, p) ==
    /\ Idle
    /\ files' = __init__(files, p)
    /\ stores' = [stores EXCEPT ![s] = NewStore(p, "init")]
    /\ hist' = [hist EXCEPT ![s] = NewHist]
    /\ last' = Returned("__init__", s, "", NoVal, "ok")
    /\ UNCHANGED <<pc, arg, done, graphVars, reqVars, execVars>>

(* len(store) *)
__len__(s) ==
    /\ Idle /\ CanRead(s)
    /\ LET ld == _load(stores[s], files)
       IN  /\ stores' = [stores EXCEPT ![s] = ld.st]
           /\ hist' = [hist EXCEPT ![s] = Touch(@, ld)]
           /\ last' = Returned("__len__", s, "", NoVal, ld.exc)
    /\ UNCHANGED <<files, pc, arg, done, graphVars, reqVars, execVars>>

(* iter(store), run to the end *)
__iter__(s) ==
    /\ Idle /\ CanRead(s)
    /\ LET ld == _load(stores[s], files)
       IN  /\ stores' = [stores EXCEPT ![s] = ld.st]
           /\ hist' = [hist EXCEPT ![s] = Touch(@, ld)]
           /\ last' = Returned("__iter__", s, "", NoVal, ld.exc)
    /\ UNCHANGED <<files, pc, arg, done, graphVars, reqVars, execVars>>

(* store[item] *)
__getitem__(s, item) ==
    /\ Idle /\ CanRead(s)
    /\ LET ld == _load(stores[s], files)
           found == ld.exc = "ok" /\ item \in DictKeys(ld.st.data)
       IN  /\ stores' = [stores EXCEPT ![s] = ld.st]
           /\ hist' = [hist EXCEPT ![s] = Touch(@, ld)]
           /\ last' = Returned("__getitem__", s, item, NoVal,
                               IF ld.exc # "ok" THEN ld.exc ELSE IF found THEN "ok" ELSE "KeyError")
    /\ UNCHANGED <<files, pc, arg, done, graphVars, reqVars, execVars>>

(* del store[v] *)
__delitem__(s, v) ==
    /\ Idle /\ CanRead(s)
    /\ LET ld == _load(stores[s], files)
       IN  /\ hist' = [hist EXCEPT ![s] = Touch(@, ld)]
           /\ IF ld.exc # "ok"
              THEN /\ stores' = [stores EXCEPT ![s] = ld.st]
                   /\ files' = files
                   /\ last' = Returned("__delitem__", s, v, NoVal, ld.exc)
              ELSE IF v \notin DictKeys(ld.st.data)
              THEN /\ stores' = [stores EXCEPT ![s] = ld.st]
                   /\ files' = files
                   /\ last' = Returned("__delitem__", s, v, NoVal, "KeyError")
              ELSE LET st2 == [ld.st EXCEPT !.data = DictDel(@, v)]
                       dp == _dump(st2, files)
                   IN  /\ stores' = [stores EXCEPT ![s] = st2]
                       /\ files' = dp.fs
                       /\ last' = Returned("__delitem__", s, v, NoVal, dp.exc)
    /\ UNCHANGED <<pc, arg, done, graphVars, reqVars, execVars>>

(* store[key] = value *)
__setitem__(s, key, value) ==
    /\ Idle /\ CanRead(s)
    /\ LET ld == _load(stores[s], files)
       IN  /\ hist' = [hist EXCEPT ![s] = Touch(@, ld)]
           /\ IF ld.exc # "ok"
              THEN /\ stores' = [stores EXCEPT ![s] = ld.st]
                   /\ files' = files
                   /\ last' = Returned("__setitem__", s, key, value, ld.exc)
              ELSE LET st2 == [ld.st EXCEPT !.data = DictSet(@, key, value)]
                       dp == _dump(st2, files)
                   IN  /\ stores' = [stores EXCEPT ![s] = st2]
                       /\ files' = dp.fs
                       /\ last' = Returned("__setitem__", s, key, value, dp.exc)
    /\ UNCHANGED <<pc, arg, done, graphVars, reqVars, execVars>>

(* The reduced state of store s crosses to another context, where it       *)
(* becomes store r: the receiver is made from the state, not by __init__.  *)
Transport(s, r) ==
    /\ Idle /\ s # r
    /\ stores' = [stores EXCEPT ![r] = __getstate__(stores[s])]
    /\ hist' = [hist EXCEPT ![r] = NewHist]
    /\ last' = Returned("__getstate__", s, "", IntVal(r), "ok")
    /\ UNCHANGED <<files, pc, arg, done, graphVars, reqVars, execVars>>

(* Something outside the program removes a backing file. *)
RemoveFile(p) ==
    /\ Idle /\ files[p].exists
    /\ files' = [files EXCEPT ![p] = NoFile]
    /\ hist' = [s \in StoreIds |-> IF stores[s].file_name = p THEN [hist[s] EXCEPT !.gone = TRUE] ELSE hist[s]]
    /\ last' = Returned("remove", 1, "", IntVal(p), "ok")
    /\ UNCHANGED <<stores, pc, arg, done, graphVars, reqVars, execVars>>

(* Files written earlier by the codec's dump: complete documents. *)
InitDicts ==
    {<<>>} \cup {<<[k |-> key, v |-> v]>> : key \in Keys, v \in {IntVal(1), LazyVal(2)}}
InitContents == {json_dump(d, TRUE).chunks : d \in InitDicts}

NoStores ==
    /\ files = [p \in Paths |-> NoFile]
    /\ stores = [s \in StoreIds |-> NewStore(1, "init")]
    /\ hist = [s \in StoreIds |-> NewHist]
    /\ last = Returned("__init__", 1, "", NoVal, "ok")
    /\ pc = [s \in StoreIds |-> "idle"]
    /\ arg = [s \in StoreIds |-> [key |-> "a", val |-> NoVal]]
    /\ done = [s \in StoreIds |-> 0]

IdleStores ==
    /\ pc = [s \in StoreIds |-> "idle"]
    /\ arg = [s \in StoreIds |-> [key |-> "a", val |-> NoVal]]
    /\ done = [s \in StoreIds |-> 0]
    /\ NoGraph /\ NoRecipe /\ NoExecutor

(* One store object at a time over path 1; store 2 is never used. The     *)
(* store that serves as a value is bound to path 2 and has been constructed. *)
StoreInit ==
    /\ \E f0 \in {NoFile} \cup {FileOf(c) : c \in InitContents} :
            files = __init__(__init__([p \in Paths |-> IF p = 1 THEN f0 ELSE NoFile], 1), 2)
    /\ stores = [s \in StoreIds |-> NewStore(1, "init")]
    /\ hist = [s \in StoreIds |-> NewHist]
    /\ last = Returned("__init__", 1, "", NoVal, "ok")
    /\ IdleStores

StoreValues == {IntVal(1), IntVal(2), LazyVal(2)}

StoreNext ==
    \/ Construct(1, 1)
    \/ __len__(1)
    \/ __iter__(1)
    \/ \E k \in Keys : __getitem__(1, k)
    \/ \E k \in Keys : __delitem__(1, k)
    \/ \E k \in Keys, v \in StoreValues : __setitem__(1, k, v)
    \/ RemoveFile(1)

SpecStore == StoreInit /\ [][StoreNext]_vars

-----------------------------------------------------------------------------
(* Transport: a sender and a receiver, each over either path.              *)

TransportInit ==
    /\ \E p1 \in Paths, p2 \in Paths :
            /\ files = __init__(__init__(__init__([p \in Paths |-> NoFile], p1), p2), 2)
            /\ stores = [s \in StoreIds |-> NewStore(IF s = 1 THEN p1 ELSE p2, "init")]
    /\ hist = [s \in StoreIds |-> NewHist]
    /\ last = Returned("__init__", 1, "", NoVal, "ok")
    /\ IdleStores

TransportValues == {IntVal(1), LazyVal(2)}

TransportNext ==
    \/ \E s \in StoreIds, r \in StoreIds : Transport(s, r)
    \/ \E s \in StoreIds : __len__(s)
    \/ \E s \in StoreIds : __delitem__(s, "a")
    \/ \E s \in StoreIds, v \in TransportValues : __setitem__(s, "a", v)

SpecTransport == TransportInit /\ [][TransportNext]_vars

-----------------------------------------------------------------------------
(* Two threads, each with its own store object over path 1, run            *)
(* __setitem__ with nothing ordering their steps: _load, the assignment to *)
(* the cache, open(file_name, "w"), and json.dump with the close.          *)
(* hist, the history of the one-store-at-a-time runs, is not kept here.    *)

Call(s, key, value) ==
    /\ pc[s] = "idle" /\ done[s] < MaxCalls
    /\ pc' = [pc EXCEPT ![s] = "load"]
    /\ arg' = [arg EXCEPT ![s] = [key |-> key, val |-> value]]
    /\ UNCHANGED <<files, stores, hist, last, done, graphVars, reqVars, execVars>>

LoadStep(s) ==
    /\ pc[s] = "load"
    /\ LET ld == _load(stores[s], files)
       IN  /\ stores' = [stores EXCEPT ![s] = ld.st]
           /\ IF ld.exc = "ok"
              THEN /\ pc' = [pc EXCEPT ![s] = "assign"]
                   /\ last' = last
              ELSE /\ pc' = [pc EXCEPT ![s] = "idle"]
                   /\ last' = Returned("__setitem__", s, arg[s].key, arg[s].val, ld.exc)
    /\ UNCHANGED <<files, hist, arg, done, graphVars, reqVars, execVars>>

AssignStep(s) ==
    /\ pc[s] = "assign"
    /\ stores' = [stores EXCEPT ![s].data = DictSet(@, arg[s].key, arg[s].val)]
    /\ pc' = [pc EXCEPT ![s] = "open"]
    /\ UNCHANGED <<files, hist, last, arg, done, graphVars, reqVars, execVars>>

OpenStep(s) ==
    /\ pc[s] = "open"
    /\ files' = open_w(files, stores[s].file_name)
    /\ pc' = [pc EXCEPT ![s] = "write"]
    /\ UNCHANGED <<stores, hist, last, arg, done, graphVars, reqVars, execVars>>

WriteStep(s) ==
    /\ pc[s] = "write"
    /\ LET w == DumpText(stores[s].data)
       IN  /\ files' = write_close(files, stores[s].file_name, w.chunks)
           /\ last' = Returned("__setitem__", s, arg[s].key, arg[s].val, w.exc)
           /\ done' = [done EXCEPT ![s] = IF w.exc = "ok" THEN @ + 1 ELSE @]
    /\ pc' = [pc EXCEPT ![s] = "idle"]
    /\ UNCHANGED <<stores, hist, arg, graphVars, reqVars, execVars>>

ConcInit ==
    /\ files = __init__(__init__([p \in Paths |-> NoFile], 1), 2)
    /\ stores = [s \in StoreIds |-> NewStore(1, "init")]
    /\ hist = [s \in StoreIds |-> NewHist]
    /\ last = Returned("__init__", 1, "", NoVal, "ok")
    /\ IdleStores

ConcValues == {IntVal(1), LazyVal(2)}

ConcNext ==
    \/ \E s \in StoreIds, k \in Keys, v \in ConcValues : Call(s, k, v)
    \/ \E s \in StoreIds : LoadStep(s)
    \/ \E s \in StoreIds : AssignStep(s)
    \/ \E s \in StoreIds : OpenStep(s)
    \/ \E s \in StoreIds : WriteStep(s)

SpecConc == ConcInit /\ [][ConcNext]_vars

-----------------------------------------------------------------------------
(* Properties of the LazyJson store                                        *)

(* What a store freshly constructed over path p would load. *)
ReadBack(p) == _load(NewStore(p, "init"), files)

(* C1: after an item assignment or deletion that returned normally, the    *)
(* decoded file equals the cache of the store: a fresh store over the same *)
(* path loads the same keys and values, the assigned key with its value,   *)
(* the deleted key absent.                                                 *)
C1_WriteThrough ==
    (last.op \in {"__setitem__", "__delitem__"} /\ last.exc = "ok") =>
        LET st == stores[last.s]
            rb == ReadBack(st.file_name)
        IN  /\ st.data_loaded
            /\ rb.exc = "ok"
            /\ DictEq(rb.st.data, st.data)
            /\ last.op = "__setitem__" =>
                   /\ last.key \in DictKeys(rb.st.data)
                   /\ DictGet(rb.st.data, last.key) = last.val
            /\ last.op = "__delitem__" => last.key \notin DictKeys(rb.st.data)

(* a deletion returned normally and left one key in the cache and the file *)
C1_Witness ==
    /\ last.op = "__delitem__" /\ last.exc = "ok"
    /\ Len(stores[last.s].data) = 1
    /\ Len(files[stores[last.s].file_name].content) = 3

(* C3 as claimed: while its file has stayed present, a store object has    *)
(* read the file not at all before its first access and exactly once from  *)
(* its first access on.                                                    *)
C3_ReadOnce ==
    \A s \in StoreIds :
        ~hist[s].gone =>
            /\ hist[s].reads <= 1
            /\ ~hist[s].accessed => (hist[s].reads = 0 /\ ~stores[s].data_loaded)
            /\ hist[s].accessed => hist[s].reads = 1

(* C4 as claimed: assigning a lazy store reference returns normally and    *)
(* writes the tagged object, and a store that loads a file holding a       *)
(* tagged object under a key has a lazy store reference under that key.    *)
C4_CodecRoundTrip ==
    /\ (last.op = "__setitem__" /\ last.val.t = "lazy") =>
           /\ last.exc = "ok"
           /\ files[stores[last.s].file_name].content = json_dump(stores[last.s].data, TRUE).chunks
    /\ \A s \in StoreIds :
           stores[s].data_loaded =>
               \A i \in 1..Len(stores[s].data) :
                   stores[s].data[i].v = object_hook(stores[s].data[i].v)

(* C5: producing the reduced state leaves the sender and the files as they *)
(* were and gives the receiver the sender's path and no cache; the first   *)
(* access of a received store reads the file as it is at that moment and   *)
(* its outcome is the outcome of loading that content.                     *)
FirstAccessOutcome(r) ==
    LET f == files[stores[r].file_name]
        dec == json_load(f.content, FALSE)
        st2 == stores'[r]
    IN  IF ~f.exists
        THEN last'.exc = "FileNotFoundError" /\ ~st2.data_loaded
        ELSE /\ hist'[r].reads = 1
             /\ IF dec.exc # "ok"
                THEN last'.exc = dec.exc /\ ~st2.data_loaded
                ELSE /\ st2.data_loaded
                     /\ st2.data =
                          IF last'.op = "__setitem__" THEN DictSet(dec.data, last'.key, last'.val)
                          ELSE IF last'.op = "__delitem__" THEN DictDel(dec.data, last'.key)
                          ELSE dec.data

C5_ReducedState ==
    [][ /\ (last'.op = "__getstate__" /\ last'.val.x # last'.s) =>
             LET s == last'.s
                 r == last'.val.x
             IN  /\ stores'[s] = stores[s]
                 /\ files' = files
                 /\ stores'[r].file_name = stores[s].file_name
                 /\ ~stores'[r].data_loaded /\ stores'[r].data = <<>>
        /\ \A r \in StoreIds :
             (stores[r].via = "state" /\ ~hist[r].accessed /\ hist'[r].accessed) =>
                 FirstAccessOutcome(r)
      ]_vars

(* a received store has loaded, on its first access, a file that holds one *)
(* key while the sender, on the same path, keeps its own loaded cache      *)
C5_Witness ==
    /\ last.op = "__len__" /\ last.exc = "ok"
    /\ stores[last.s].via = "state"
    /\ hist[last.s].reads = 1
    /\ Len(stores[last.s].data) = 1
    /\ \E s \in StoreIds :
          /\ s # last.s
          /\ stores[s].file_name = stores[last.s].file_name
          /\ stores[s].data_loaded

-----------------------------------------------------------------------------
(* Properties of concurrent writers                                        *)

(* C2: a thread that finishes a dump has written its own whole cache and   *)
(* nothing else at the start of the file: no entry is taken over from what *)
(* the file held, so an entry another store wrote in between is lost.      *)
C2_RewriteFromOwnCache ==
    [][ \A s \in StoreIds :
          (pc[s] = "write" /\ pc'[s] = "idle" /\ last'.exc = "ok") =>
              LET text == files'[stores[s].file_name].content
                  n == Len(stores[s].data) + 2
              IN  /\ Len(text) >= n
                  /\ json_load(SubSeq(text, 1, n), FALSE).exc = "ok"
                  /\ json_load(SubSeq(text, 1, n), FALSE).data = stores[s].data
      ]_vars

(* both threads have completed an assignment, to different keys, and the   *)
(* file holds one of the two keys only                                     *)
C2_LostUpdate ==
    /\ Idle
    /\ done[1] >= 1 /\ done[2] >= 1
    /\ arg[1].key # arg[2].key
    /\ LET r == json_load(files[1].content, FALSE)
       IN  /\ r.exc = "ok"
           /\ Cardinality(DictKeys(r.data) \cap {arg[1].key, arg[2].key}) = 1

-----------------------------------------------------------------------------
(* pluck on a networkx DiGraph: [nodes, edges], an edge a pair <<u, v>>.   *)

Nodes == 1..MaxNode

in_edges(g, n) == {e \in g.edges : e[2] = n}
out_edges(g, n) == {e \in g.edges : e[1] = n}

(* G.remove_node(n): the node and every edge at it. *)
remove_node(g, n) ==
    [nodes |-> g.nodes \ {n}, edges |-> {e \in g.edges : e[1] # n /\ e[2] # n}]

(* G.add_edges_from(ebunch): the edges, and their end points as nodes. *)
add_edges_from(g, ebunch) ==
    [nodes |-> g.nodes \cup {e[1] : e \in ebunch} \cup {e[2] : e \in ebunch},
     edges |-> g.edges \cup ebunch]

(* pluck that removes the node and fuses nothing. *)
pluck_without_fusing(g, n) ==
    IF n \in g.nodes THEN remove_node(g, n) ELSE g

(* pluck that keeps the plucked node among the predecessors and successors. *)
pluck_keeping_self(g, n) ==
    IF n \in g.nodes
    THEN LET new_edges == {e[1] : e \in in_edges(g, n)} \X {e[2] : e \in out_edges(g, n)}
         IN  add_edges_from(remove_node(g, n), new_edges)
    ELSE g

pluck(g, n) ==
    IF n \in g.nodes
    THEN LET new_edges == ({e[1] : e \in in_edges(g, n)} \ {n}) \X
                          ({e[2] : e \in out_edges(g, n)} \ {n})
         IN  add_edges_from(remove_node(g, n), new_edges)
    ELSE g

Pluck(n) ==
    /\ ~plucked
    /\ G' = pluck(G, n)
    /\ node_id' = n
    /\ plucked' = TRUE
    /\ UNCHANGED <<G0, storeVars, reqVars, execVars>>

Graphs == UNION {[nodes : {N}, edges : SUBSET (N \X N)] : N \in SUBSET Nodes}

PluckInit ==
    /\ G0 \in Graphs
    /\ G = G0
    /\ node_id = 1
    /\ plucked = FALSE
    /\ NoStores /\ NoRecipe /\ NoExecutor

PluckNext == \E n \in Nodes : Pluck(n)

SpecPluck == PluckInit /\ [][PluckNext]_vars

(* The nodes reached from the nodes of frontier by one edge or more. *)
RECURSIVE Closure(_, _, _)
Closure(g, frontier, seen) ==
    LET next == {e[2] : e \in {d \in g.edges : d[1] \in frontier}} \ seen
    IN  IF next = {} THEN seen ELSE Closure(g, next, seen \cup next)

Reaches(g, u, v) == v \in Closure(g, {u}, {})

(* C6: between any two nodes other than the plucked one, there is a        *)
(* directed path of at least one edge after pluck exactly when there was   *)
(* one before.                                                             *)
C6_Connectivity ==
    plucked =>
        \A u \in G0.nodes \ {node_id}, v \in G0.nodes \ {node_id} :
            Reaches(G, u, v) <=> Reaches(G0, u, v)

(* the only path from u to v went through the plucked node, and the fused  *)
(* edge stands for it                                                      *)
C6_Witness ==
    /\ plucked
    /\ \E u \in G0.nodes, v \in G0.nodes :
          /\ u # v /\ u # node_id /\ v # node_id
          /\ G0.edges = {<<u, node_id>>, <<node_id, v>>}
          /\ <<u, v>> \in G.edges

(* C10: pluck of a node of the graph leaves the other nodes, the edges not *)
(* at the node, and one edge from every predecessor to every successor of  *)
(* the node, the node itself not counted among them; pluck of a node that  *)
(* is not in the graph leaves the graph as it was.                         *)
C10_PluckResult ==
    plucked =>
        IF node_id \in G0.nodes
        THEN LET P == {u \in G0.nodes \ {node_id} : <<u, node_id>> \in G0.edges}
                 S == {v \in G0.nodes \ {node_id} : <<node_id, v>> \in G0.edges}
             IN  /\ G.nodes = G0.nodes \ {node_id}
                 /\ G.edges = {e \in G0.edges : e[1] # node_id /\ e[2] # node_id} \cup (P \X S)
        ELSE G = G0

(* the plucked node had a self-loop, a predecessor and a successor *)
C10_Witness ==
    /\ plucked
    /\ <<node_id, node_id>> \in G0.edges
    /\ \E u \in G0.nodes, v \in G0.nodes :
          /\ u # node_id /\ v # node_id
          /\ <<u, node_id>> \in G0.edges /\ <<node_id, v>> \in G0.edges
          /\ <<u, v>> \notin G0.edges
          /\ <<u, v>> \in G.edges
    /\ node_id \notin G.nodes

-----------------------------------------------------------------------------
(* get_requirements. A string is a sequence of characters; an entry of a   *)
(* requirements list is a string or None.                                  *)

Str(s) == [none |-> FALSE, s |-> s]
None == [none |-> TRUE, s |-> <<>>]

(* pin_sep_pat: the characters a requirement is split at *)
pin_sep_pat == {" ", ">", "<", "=", "["}

(* pin_sep_pat.split(x)[0]: the text before the first separator *)
RECURSIVE split_first(_)
split_first(x) ==
    IF x = <<>> \/ Head(x) \in pin_sep_pat THEN <<>>
    ELSE <<Head(x)>> \o split_first(Tail(x))

(* str.lower *)
lower_char(c) ==
    CASE c = "N" -> "n"
      [] c = "P" -> "p"
      [] OTHER -> c
lower(x) == [i \in 1..Len(x) |-> lower_char(x[i])]

SeqRange(q) == {q[i] : i \in 1..Len(q)}

(* A value of a build, host or run key, or of outputs: absent, null or a list. *)
NullSub == [t |-> "null", items |-> <<>>]
ListSub(items) == [t |-> "list", items |-> items]
(* d.get(key, []) or [] *)
get_or_empty(sub) == IF sub.t = "list" THEN sub.items ELSE <<>>

(* A requirements section: absent, null, a flat list, or a mapping. *)
NullSection == [AbsentSection EXCEPT !.t = "null"]
ListSection(items) == [AbsentSection EXCEPT !.t = "list", !.items = items]
MapSection(b, h, r) == [t |-> "map", items |-> <<>>, build |-> b, host |-> h, run |-> r]

(* not req: None, an empty list, an empty mapping; an absent section is    *)
(* the default {} of dict.get                                              *)
falsy(req) ==
    \/ req.t \in {"absent", "null"}
    \/ req.t = "list" /\ req.items = <<>>
    \/ req.t = "map" /\ req.build.t = "absent" /\ req.host.t = "absent" /\ req.run.t = "absent"

_parse_requirements(req, build, host, run) ==
    IF falsy(req) THEN {}
    ELSE LET reqlist ==
                 IF req.t = "list"
                 THEN (IF host \/ run THEN req.items ELSE <<>>)
                 ELSE (IF build THEN get_or_empty(req.build) ELSE <<>>) \o
                      (IF host THEN get_or_empty(req.host) ELSE <<>>) \o
                      (IF run THEN get_or_empty(req.run) ELSE <<>>)
         IN  {lower(split_first(x.s)) : x \in {y \in SeqRange(reqlist) : ~y.none}}

(* output.get("requirements", {}) or {} *)
or_empty(req) == IF falsy(req) THEN AbsentSection ELSE req

(* get_requirements that takes the outputs in whatever the outputs flag says. *)
get_requirements_all_outputs(doc, outputs, build, host, run) ==
    _parse_requirements(doc.requirements, build, host, run) \cup
    UNION {_parse_requirements(or_empty(o.requirements), build, host, run) :
               o \in SeqRange(get_or_empty(doc.outputs))}

get_requirements(doc, outputs, build, host, run) ==
    LET top == _parse_requirements(doc.requirements, build, host, run)
        outs == IF outputs THEN get_or_empty(doc.outputs) ELSE <<>>
    IN  top \cup UNION {_parse_requirements(or_empty(o.requirements), build, host, run) :
                            o \in SeqRange(outs)}

GetRequirements ==
    /\ ~computed
    /\ reqs' = get_requirements(meta_yaml, flags.outputs, flags.build, flags.host, flags.run)
    /\ computed' = TRUE
    /\ UNCHANGED <<meta_yaml, flags, storeVars, graphVars, execVars>>

ReqLists ==
    { <<>>,
      <<Str(<<"N", "p", " ", ">", "=", "1">>), None>>,
      <<Str(<<"p", "[", "t", "]">>), Str(<<"n", "p">>)>> }
SubValues == {AbsentSub, NullSub} \cup {ListSub(l) : l \in ReqLists}
TopSections ==
    {AbsentSection, NullSection} \cup {ListSection(l) : l \in ReqLists} \cup
    {MapSection(b, h, r) : b \in {AbsentSub, ListSub(<<Str(<<"c", "<", "2">>)>>)},
                           h \in {NullSub, ListSub(<<Str(<<"P">>)>>)},
                           r \in SubValues}
OutputSections ==
    {AbsentSection, NullSection, ListSection(<<Str(<<"z">>)>>),
     MapSection(ListSub(<<Str(<<"c", "=", "1">>)>>), AbsentSub, ListSub(<<Str(<<"N", "p">>)>>))}
Outputs == {[requirements |-> r] : r \in OutputSections}
OutputLists == UNION {[1..n -> Outputs] : n \in 0..MaxOutputs}
OutputsValues == {AbsentSub, NullSub} \cup {ListSub(l) : l \in OutputLists}

ReqInit ==
    /\ meta_yaml \in [requirements : TopSections, outputs : OutputsValues]
    /\ flags \in [outputs : BOOLEAN, build : BOOLEAN, host : BOOLEAN, run : BOOLEAN]
    /\ reqs = {}
    /\ computed = FALSE
    /\ NoStores /\ NoGraph /\ NoExecutor

ReqNext == GetRequirements

SpecReq == ReqInit /\ [][ReqNext]_vars

(* C9 as claimed: a document whose top-level requirements section is null  *)
(* or absent gives the empty set under every combination of the flags.     *)
C9_EmptyWhenNoRequirements ==
    (computed /\ meta_yaml.requirements.t \in {"absent", "null"}) => reqs = {}

(* C9, amended: a document whose top-level requirements section is null or *)
(* absent gives the empty set under every combination of the flags when    *)
(* the outputs are left out (outputs = False) or every entry of outputs   *)
(* has a requirements section that is null, absent or empty.               *)
NoOutputRequirements ==
    \A o \in SeqRange(get_or_empty(meta_yaml.outputs)) : falsy(o.requirements)

C9_EmptyWithoutOutputRequirements ==
    (/\ computed
     /\ meta_yaml.requirements.t \in {"absent", "null"}
     /\ ~flags.outputs \/ NoOutputRequirements) => reqs = {}

(* a null top-level section, outputs left out, and an output that has      *)
(* requirements of its own                                                 *)
C9_Witness ==
    /\ computed
    /\ meta_yaml.requirements.t = "null"
    /\ ~flags.outputs /\ flags.run
    /\ ~NoOutputRequirements
    /\ reqs = {}

-----------------------------------------------------------------------------
(* executor: the generator behind the context manager, scope after scope.  *)

KnownKinds == {"thread", "process", "dask"}
Kinds == KnownKinds \cup {"magic"}

(* every unknown kind gets a thread pool *)
branch_defaulting(k) ==
    CASE k = "process" -> "process_pool"
      [] k = "dask" -> "cluster"
      [] OTHER -> "thread_pool"

(* the if / elif chain on kind: the statement the generator runs next *)
branch(k) ==
    CASE k = "thread" -> "thread_pool"
      [] k = "process" -> "process_pool"
      [] k = "dask" -> "cluster"
      [] OTHER -> "not_implemented"

Event(e, r) == [n |-> scopes, e |-> e, r |-> r]

(* with executor(kind, max_workers) as ...: the scope is entered *)
Enter(k, n) ==
    /\ epc \in {"idle", "returned", "raised"}
    /\ scopes < MaxScopes
    /\ kind' = k /\ max_workers' = n
    /\ scopes' = scopes + 1
    /\ epc' = branch(k)
    /\ error' = "none" /\ body_ran' = FALSE
    /\ UNCHANGED <<held, elog, storeVars, graphVars, reqVars>>

(* ThreadPoolExecutor / ProcessPoolExecutor (max_workers = max_workers) *)
AcquirePool ==
    /\ epc \in {"thread_pool", "process_pool"}
    /\ max_workers >= 1
    /\ held' = held \cup {"pool"}
    /\ elog' = Append(elog, Event("acquire", "pool"))
    /\ epc' = "body"
    /\ UNCHANGED <<kind, max_workers, error, body_ran, scopes, storeVars, graphVars, reqVars>>

(* the pool constructor raises: max_workers <= 0, or the system refuses *)
AcquirePoolFail ==
    /\ epc \in {"thread_pool", "process_pool"}
    /\ error' = IF max_workers <= 0 THEN "ValueError" ELSE "OSError"
    /\ epc' = "raised"
    /\ UNCHANGED <<kind, max_workers, held, body_ran, scopes, elog, storeVars, graphVars, reqVars>>

(* import distributed; distributed.LocalCluster(n_workers = max_workers) *)
AcquireCluster ==
    /\ epc = "cluster"
    /\ held' = held \cup {"cluster"}
    /\ elog' = Append(elog, Event("acquire", "cluster"))
    /\ epc' = "client"
    /\ UNCHANGED <<kind, max_workers, error, body_ran, scopes, storeVars, graphVars, reqVars>>

(* the import or the cluster constructor raises *)
AcquireClusterFail ==
    /\ epc = "cluster"
    /\ error' = "ImportError"
    /\ epc' = "raised"
    /\ UNCHANGED <<kind, max_workers, held, body_ran, scopes, elog, storeVars, graphVars, reqVars>>

(* distributed.Client(cluster) *)
AcquireClient ==
    /\ epc = "client"
    /\ held' = held \cup {"client"}
    /\ elog' = Append(elog, Event("acquire", "client"))
    /\ epc' = "body"
    /\ UNCHANGED <<kind, max_workers, error, body_ran, scopes, storeVars, graphVars, reqVars>>

(* a failing Client(cluster) that leaves at once, the cluster still open *)
AcquireClientFailLeaking ==
    /\ epc = "client"
    /\ error' = "OSError"
    /\ epc' = "raised"
    /\ UNCHANGED <<kind, max_workers, held, body_ran, scopes, elog, storeVars, graphVars, reqVars>>

(* distributed.Client(cluster) raises inside the with block of the cluster *)
AcquireClientFail ==
    /\ epc = "client"
    /\ error' = "OSError"
    /\ epc' = "unwind"
    /\ UNCHANGED <<kind, max_workers, held, body_ran, scopes, elog, storeVars, graphVars, reqVars>>

(* raise NotImplementedError *)
NotImplemented ==
    /\ epc = "not_implemented"
    /\ error' = "NotImplementedError"
    /\ epc' = "raised"
    /\ UNCHANGED <<kind, max_workers, held, body_ran, scopes, elog, storeVars, graphVars, reqVars>>

(* the body of the with statement, at the yield, finishes *)
BodyReturn ==
    /\ epc = "body"
    /\ body_ran' = TRUE
    /\ epc' = "unwind"
    /\ UNCHANGED <<kind, max_workers, held, error, scopes, elog, storeVars, graphVars, reqVars>>

(* the body raises: the exception is thrown into the generator at the yield *)
BodyRaise ==
    /\ epc = "body"
    /\ body_ran' = TRUE
    /\ error' = "BodyError"
    /\ epc' = "unwind"
    /\ UNCHANGED <<kind, max_workers, held, scopes, elog, storeVars, graphVars, reqVars>>

(* the with block that is left first: the innermost one *)
innermost(h) == IF "client" \in h THEN "client" ELSE IF "cluster" \in h THEN "cluster" ELSE "pool"

(* a with block of the generator is left: __exit__ of its resource *)
Release ==
    /\ epc = "unwind" /\ held # {}
    /\ held' = held \ {innermost(held)}
    /\ elog' = Append(elog, Event("release", innermost(held)))
    /\ UNCHANGED <<kind, max_workers, epc, error, body_ran, scopes, storeVars, graphVars, reqVars>>

(* the generator ends, or the exception leaves it: the scope is left *)
Leave ==
    /\ epc = "unwind" /\ held = {}
    /\ epc' = IF error = "none" THEN "returned" ELSE "raised"
    /\ UNCHANGED <<kind, max_workers, held, error, body_ran, scopes, elog, storeVars, graphVars, reqVars>>

ExecInit == NoExecutor /\ NoStores /\ NoGraph /\ NoRecipe

ExecNext ==
    \/ \E k \in Kinds, n \in 0..MaxWorkers : Enter(k, n)
    \/ AcquirePool
    \/ AcquirePoolFail
    \/ AcquireCluster
    \/ AcquireClusterFail
    \/ AcquireClient
    \/ AcquireClientFail
    \/ NotImplemented
    \/ BodyReturn
    \/ BodyRaise
    \/ Release
    \/ Leave

SpecExec == ExecInit /\ [][ExecNext]_vars

(* the events of the present scope *)
Now(e, r) == {i \in 1..Len(elog) : elog[i] = Event(e, r)}
Resources == {"pool", "cluster", "client"}

(* C7: in a scope of a known kind, while the body runs every resource the  *)
(* scope acquired is held and none is released; once the scope is left,    *)
(* with a return or an exception, every resource it acquired has been      *)
(* released after its acquisition, the client before the cluster.          *)
C7_Release ==
    kind \in KnownKinds =>
        /\ epc = "body" =>
               /\ held = IF kind = "dask" THEN {"cluster", "client"} ELSE {"pool"}
               /\ \A r \in Resources : Now("release", r) = {}
        /\ epc \in {"returned", "raised"} =>
               /\ held = {}
               /\ \A r \in Resources :
                      \A i \in Now("acquire", r) : \E j \in Now("release", r) : i < j
               /\ \A i \in Now("release", "client"), j \in Now("release", "cluster") : i < j
        /\ \A r \in Resources : r \in held <=> (Now("acquire", r) # {} /\ Now("release", r) = {})

(* a dask scope whose client could not be made has been left with the      *)
(* exception and the cluster released                                      *)
C7_Witness ==
    /\ kind = "dask" /\ epc = "raised" /\ error = "OSError"
    /\ Now("acquire", "cluster") # {} /\ Now("release", "cluster") # {}
    /\ Now("acquire", "client") = {}

(* C8: a scope of an unknown kind acquires nothing, never runs its body    *)
(* and leaves with NotImplementedError.                                    *)
C8_NotImplemented ==
    (kind \notin KnownKinds /\ epc # "idle") =>
        /\ epc \in {"not_implemented", "raised"}
        /\ epc = "raised" => error = "NotImplementedError"
        /\ held = {}
        /\ ~body_ran
        /\ \A r \in Resources : Now("acquire", r) = {} /\ Now("release", r) = {}

(* an unknown kind has raised in a second scope, after a first scope that  *)
(* acquired and released a pool                                            *)
C8_Witness ==
    /\ kind = "magic" /\ epc = "raised" /\ error = "NotImplementedError"
    /\ scopes = 2
    /\ Len(elog) = 2

====
